---- MODULE Spec2Model ----
(***************************************************************************)
(* AI description pipeline of the artifacts app.                           *)
(*                                                                         *)
(*   services.py  OllamaService.generate_artifact_description  (client)    *)
(*   views.py     generate_artifact_description_stream         (aggregator)*)
(*   views.py     regenerate_artifact_description              (Reset)     *)
(*   views.py     artifact_update_view + ArtifactSerializer    (update)    *)
(*                                                                         *)
(* One artifact row is modelled: every operation addresses one row by its  *)
(* primary key and no operation touches two rows.                          *)
(*                                                                         *)
(* Optional (nullable) values are sequences of length 0 or 1: NULL is <<>> *)
(* and Some(x) is <<x>>.  A text is a sequence of characters, so the empty *)
(* string Some(<<>>) differs from NULL.                                    *)
(***************************************************************************)
EXTENDS Integers, Sequences, FiniteSets, TLC

VARIABLES db, now, run, lastWriter, cl, got, pr, resetAt, simple

vars == <<db, now, run, lastWriter, cl, got, pr, resetAt, simple>>

----------------------------------------------------------------------------
(* Bounds *)

MaxLines == 2
MaxNow == 1
MaxDay == 31

\* Two generation requests, so that two of them can overlap.
Runs == {1, 2}

----------------------------------------------------------------------------
(* Values *)

NULL == <<>>
Some(x) == <<x>>

\* Python truthiness of a nullable text: None and "" are falsy.
Truthy(o) == o # NULL /\ o[1] # <<>>

Texts == {<<"a">>, <<"b">>}

\* A decoded JSON value of the "response" key: a string or something else.
Str(t) == [ty |-> "str", v |-> t]
NonStr == [ty |-> "num", v |-> <<>>]

\* One line of the response body as iter_lines() returns it.
BlankLine == [k |-> "blank", resp |-> NULL, done |-> FALSE]
BadLine == [k |-> "bad", resp |-> NULL, done |-> FALSE]
NonDictLine == [k |-> "nondict", resp |-> NULL, done |-> FALSE]
Rec(resp, done) == [k |-> "rec", resp |-> resp, done |-> done]

RespVals == {NULL} \cup {Some(Str(t)) : t \in Texts} \cup {Some(NonStr)}

Lines == {BlankLine, BadLine, NonDictLine} \cup {Rec(p, d) : p \in RespVals, d \in BOOLEAN}

\* What one read of the body can give: a line, the end of the body, a fault.
\* The lines fed to a request that runs under the aggregator.  Left out are
\* the lines the aggregator cannot tell from another input: a record with
\* neither key (as a blank line), a non-object (as a read fault) and a
\* non-string response in a final record (the run fails at the chunk).
AggLines ==
    {BlankLine, BadLine, Rec(NULL, TRUE), Rec(Some(NonStr), FALSE)}
    \cup {Rec(Some(Str(t)), d) : t \in Texts, d \in BOOLEAN}

EOF == [k |-> "eof", resp |-> NULL, done |-> FALSE]
ReadTimeout == [k |-> "timeout", resp |-> NULL, done |-> FALSE]
ReadFault == [k |-> "fault", resp |-> NULL, done |-> FALSE]

OpenOutcomes == {"ok", "badstatus", "timeout", "connect", "fault"}

\* Generation events: {'chunk': v}, {'done': True}, {'error': msg}.
Chunk(v) == [t |-> "chunk", v |-> v, msg |-> <<>>]
Done == [t |-> "done", v |-> NonStr, msg |-> <<>>]
Error(m) == [t |-> "error", v |-> NonStr, msg |-> <<m>>]

IsTerminalEvent(e) == e.t \in {"done", "error"}

\* Outbound SSE frames: data: {"type": ..., <payload>}.
ChunkFrame(t) == [type |-> "chunk", body |-> t]
ErrorFrame(m) == [type |-> "error", body |-> m]
CompleteFrame(t) == [type |-> "complete", body |-> t]

IsTerminalFrame(f) == f.type \in {"complete", "error"}

Last(s) == s[Len(s)]

----------------------------------------------------------------------------
(* Generation Client: OllamaService.generate_artifact_description.          *)
(* Each operator gives what the generator yields, in order, for one thing   *)
(* the network hands it, and whether the generator is finished afterwards.  *)

\* Variant: the status check is missing, the body of a failed response is read.
ClientOpen_NoStatusCheck(outcome) ==
    CASE outcome \in {"ok", "badstatus"} -> [events |-> <<>>, stop |-> FALSE]
      [] outcome = "timeout" -> [events |-> <<Error("Ollama API timeout")>>, stop |-> TRUE]
      [] outcome = "connect" -> [events |-> <<Error("Cannot connect to Ollama")>>, stop |-> TRUE]
      [] OTHER -> [events |-> <<Error("Unexpected error")>>, stop |-> TRUE]

\* Opening the request: httpx.stream(...) and the status check.
ClientOpen(outcome) ==
    CASE outcome = "ok" -> [events |-> <<>>, stop |-> FALSE]
      [] outcome = "badstatus" -> [events |-> <<Error("Ollama API error")>>, stop |-> TRUE]
      [] outcome = "timeout" -> [events |-> <<Error("Ollama API timeout")>>, stop |-> TRUE]
      [] outcome = "connect" -> [events |-> <<Error("Cannot connect to Ollama")>>, stop |-> TRUE]
      [] OTHER -> [events |-> <<Error("Unexpected error")>>, stop |-> TRUE]

\* Variant: the loop is not left after Done.
ClientOnRecord_NoBreak(resp, done) ==
    [events |-> (IF resp # NULL THEN <<Chunk(resp[1])>> ELSE <<>>)
                \o (IF done THEN <<Done>> ELSE <<>>),
     stop |-> FALSE]

\* One parsed record: 'response' in data, then data.get('done').
ClientOnRecord(resp, done) ==
    [events |-> (IF resp # NULL THEN <<Chunk(resp[1])>> ELSE <<>>)
                \o (IF done THEN <<Done>> ELSE <<>>),
     stop |-> done]

\* Variant: a read timeout is reported inside the loop, which goes on.
ClientOnInput_TimeoutContinues(inp) ==
    CASE inp.k = "blank" -> [events |-> <<>>, stop |-> FALSE]
      [] inp.k = "bad" -> [events |-> <<Error("JSON decode error")>>, stop |-> FALSE]
      [] inp.k = "rec" -> ClientOnRecord(inp.resp, inp.done)
      [] inp.k = "nondict" -> [events |-> <<Error("Unexpected error")>>, stop |-> TRUE]
      [] inp.k = "eof" -> [events |-> <<>>, stop |-> TRUE]
      [] inp.k = "timeout" -> [events |-> <<Error("Ollama API timeout")>>, stop |-> FALSE]
      [] OTHER -> [events |-> <<Error("Unexpected error")>>, stop |-> TRUE]

\* One step of "for line in response.iter_lines()".
ClientOnInput(inp) ==
    CASE inp.k = "blank" -> [events |-> <<>>, stop |-> FALSE]
      [] inp.k = "bad" -> [events |-> <<Error("JSON decode error")>>, stop |-> FALSE]
      [] inp.k = "rec" -> ClientOnRecord(inp.resp, inp.done)
      [] inp.k = "nondict" -> [events |-> <<Error("Unexpected error")>>, stop |-> TRUE]
      [] inp.k = "eof" -> [events |-> <<>>, stop |-> TRUE]
      [] inp.k = "timeout" -> [events |-> <<Error("Ollama API timeout")>>, stop |-> TRUE]
      [] OTHER -> [events |-> <<Error("Unexpected error")>>, stop |-> TRUE]

----------------------------------------------------------------------------
(* Stream aggregator: event_stream() of generate_artifact_description_stream *)
(* Each operator gives the new accumulator, the frames yielded, whether the  *)
(* two-field save was executed, and whether the generator finishes when it   *)
(* is resumed after the last of those frames.  Nothing runs between a last   *)
(* frame and the return that follows it, so a run that has yielded its last  *)
(* frame is "ended".                                                         *)

\* Variant: the chunk is put in front of the accumulator.
OnChunk_Prepend(full, v) ==
    IF v.ty = "str"
    THEN [full |-> v.v \o full, frames |-> <<ChunkFrame(v.v)>>, persist |-> FALSE, end |-> FALSE]
    ELSE [full |-> full, frames |-> <<ErrorFrame(<<"TypeError">>)>>, persist |-> FALSE, end |-> TRUE]

\* Variant: the text accumulated so far is saved at every chunk.
OnChunk_SavesEach(full, v) ==
    IF v.ty = "str"
    THEN [full |-> full \o v.v, frames |-> <<ChunkFrame(v.v)>>, persist |-> TRUE, end |-> FALSE]
    ELSE [full |-> full, frames |-> <<ErrorFrame(<<"TypeError">>)>>, persist |-> FALSE, end |-> TRUE]

\* if 'chunk' in chunk: full_description += chunk['chunk']; yield chunk frame
OnChunk(full, v) ==
    IF v.ty = "str"
    THEN [full |-> full \o v.v, frames |-> <<ChunkFrame(v.v)>>, persist |-> FALSE, end |-> FALSE]
    ELSE [full |-> full, frames |-> <<ErrorFrame(<<"TypeError">>)>>, persist |-> FALSE, end |-> TRUE]

\* Variant: what was accumulated is saved before the error frame.
OnError_SavesPartial(full, msg) ==
    [full |-> full, frames |-> <<ErrorFrame(msg)>>, persist |-> TRUE, end |-> TRUE]

\* Variant: the loop goes on after the error frame.
OnError_Continues(full, msg) ==
    [full |-> full, frames |-> <<ErrorFrame(msg)>>, persist |-> FALSE, end |-> FALSE]

\* elif 'error' in chunk: yield error frame; return
OnError(full, msg) ==
    [full |-> full, frames |-> <<ErrorFrame(msg)>>, persist |-> FALSE, end |-> TRUE]

\* Variant: the complete frame is yielded before the save.
OnDone_CompleteFirst(full, saveOk) ==
    IF saveOk
    THEN [full |-> full, frames |-> <<CompleteFrame(full)>>, persist |-> TRUE, end |-> TRUE]
    ELSE [full |-> full, frames |-> <<CompleteFrame(full), ErrorFrame(<<"save failed">>)>>,
          persist |-> FALSE, end |-> TRUE]

\* elif chunk.get('done'): save, yield complete frame, break;
\* a save that raises lands in "except Exception" and yields an error frame.
OnDone(full, saveOk) ==
    IF saveOk
    THEN [full |-> full, frames |-> <<CompleteFrame(full)>>, persist |-> TRUE, end |-> TRUE]
    ELSE [full |-> full, frames |-> <<ErrorFrame(<<"save failed">>)>>, persist |-> FALSE, end |-> TRUE]

\* Variant: a "finally" saves what was accumulated when the generator closes.
OnClose_SavesPartial(full) ==
    [full |-> full, frames |-> <<>>, persist |-> TRUE, end |-> TRUE]

\* The generator is closed while suspended at a yield: GeneratorExit is not
\* an Exception, so "except Exception" does not run and nothing else does.
OnClose(full) ==
    [full |-> full, frames |-> <<>>, persist |-> FALSE, end |-> TRUE]

AggOnEvent(ev, full, saveOk) ==
    CASE ev.t = "chunk" -> OnChunk(full, ev.v)
      [] ev.t = "error" -> OnError(full, ev.msg)
      [] OTHER -> OnDone(full, saveOk)

\* The two assignments to the loaded object before the save:
\* artifact.ai_description = full_description; ..._generated_at = timezone.now()
Persist(d, text, t) ==
    [d EXCEPT !.ai_description = Some(text), !.ai_description_generated_at = Some(t)]

\* Variant: only the text is cleared.
Cleared_TextOnly(d) ==
    [d EXCEPT !.ai_description = NULL]

\* regenerate_artifact_description: both fields of the loaded object set to None.
Cleared(d) ==
    [d EXCEPT !.ai_description = NULL, !.ai_description_generated_at = NULL]

\* update_fields of both saves.
SavedFields == {"ai_description", "ai_description_generated_at"}

\* Variant: a field that already has a value in the row is kept.
SaveFields_KeepsExisting(d, obj, fields) ==
    [f \in DOMAIN d |-> IF f \in fields /\ d[f] = NULL THEN obj[f] ELSE d[f]]

\* Variant: save() without update_fields writes every field of the object.
SaveFields_AllFields(d, obj, fields) ==
    [f \in DOMAIN d |-> obj[f]]

\* obj.save(update_fields=fields) on the row d: one UPDATE of those columns.
SaveFields(d, obj, fields) ==
    [f \in DOMAIN d |-> IF f \in fields THEN obj[f] ELSE d[f]]

\* get_object_or_404: the object a generation request holds.  Its two AI
\* fields are assigned before they are ever read, so their loaded values
\* are not kept.
Loaded(d) ==
    [d EXCEPT !.ai_description = NULL, !.ai_description_generated_at = NULL]

\* ArtifactSerializer.Meta: fields that are not read_only (of those modelled).
SerializerWritable == {"description", "ai_description", "ai_description_generated_at"}

\* Values that a PATCH body may carry for a field.
UpdateVals(f) ==
    IF f = "ai_description_generated_at" THEN {NULL}
    ELSE IF f = "ai_description" THEN {Some(<<"u">>)}
    ELSE {NULL, Some(<<"d">>)}

----------------------------------------------------------------------------
(* Prompt Builder: OllamaService._create_prompt.  A prompt is the sequence *)
(* of its parts: the fixed opening, one line per field, the fixed guidance.*)

PromptPart(k, v) == [k |-> k, v |-> v]
PromptHeader == PromptPart("header", <<>>)
PromptGuidance == PromptPart("guidance", <<>>)

\* Variant: the origin line is written before the estimated-year line.
CreatePrompt_OriginFirst(artifact_name, time_period, estimated_year, origin_location) ==
    <<PromptHeader, PromptPart("name", artifact_name)>>
    \o (IF Truthy(time_period) THEN <<PromptPart("time_period", time_period[1])>> ELSE <<>>)
    \o (IF Truthy(origin_location)
        THEN <<PromptPart("origin_location", origin_location[1])>> ELSE <<>>)
    \o (IF Truthy(estimated_year)
        THEN <<PromptPart("estimated_year", estimated_year[1])>> ELSE <<>>)
    \o <<PromptGuidance>>

\* prompt = f"...{artifact_name}"; if time_period: ...; if estimated_year: ...;
\* if origin_location: ...; prompt += guidance
CreatePrompt(artifact_name, time_period, estimated_year, origin_location) ==
    <<PromptHeader, PromptPart("name", artifact_name)>>
    \o (IF Truthy(time_period) THEN <<PromptPart("time_period", time_period[1])>> ELSE <<>>)
    \o (IF Truthy(estimated_year)
        THEN <<PromptPart("estimated_year", estimated_year[1])>> ELSE <<>>)
    \o (IF Truthy(origin_location)
        THEN <<PromptPart("origin_location", origin_location[1])>> ELSE <<>>)
    \o <<PromptGuidance>>

----------------------------------------------------------------------------
(* Description State Manager: needs_ai_description, get_artifact_description *)
(* Time is counted in days.                                                  *)

\* timedelta(days=30)
StaleDays == 30

\* Variant: a description of exactly 30 days counts as stale.
NeedsRegeneration_AtLeast(d, t) ==
    IF ~Truthy(d.ai_description) THEN TRUE
    ELSE IF d.ai_description_generated_at # NULL
         THEN t - d.ai_description_generated_at[1] >= StaleDays
         ELSE FALSE

\* Artifact.needs_ai_description at time t.
NeedsRegeneration(d, t) ==
    IF ~Truthy(d.ai_description) THEN TRUE
    ELSE IF d.ai_description_generated_at # NULL
         THEN t - d.ai_description_generated_at[1] > StaleDays
         ELSE FALSE

\* The fixed text returned when there is no description at all.
Placeholder == <<"no description">>

\* Variant: the plain description is preferred to the AI description.
GetResult_PlainFirst(d, t) ==
    [description |-> IF Truthy(d.description) THEN d.description[1]
                     ELSE IF Truthy(d.ai_description) THEN d.ai_description[1]
                     ELSE Placeholder,
     is_ai_generated |-> Truthy(d.ai_description),
     generated_at |-> d.ai_description_generated_at,
     needs_regeneration |-> NeedsRegeneration(d, t)]

\* The body of the response of get_artifact_description at time t.
GetResult(d, t) ==
    [description |-> IF Truthy(d.ai_description) THEN d.ai_description[1]
                     ELSE IF Truthy(d.description) THEN d.description[1]
                     ELSE Placeholder,
     is_ai_generated |-> Truthy(d.ai_description),
     generated_at |-> d.ai_description_generated_at,
     needs_regeneration |-> NeedsRegeneration(d, t)]

----------------------------------------------------------------------------
(* State *)

NoWriter == [by |-> "none", r |-> 0]
ByRun(r) == [by |-> "run", r |-> r]
ByReset == [by |-> "reset", r |-> 0]
ByUpdate == [by |-> "update", r |-> 0]

InitRun ==
    [pc |-> "idle", art |-> NULL, full |-> <<>>, frames |-> <<>>, events |-> <<>>,
     pend |-> <<>>, stop |-> FALSE, nlines |-> 0, nreq |-> 0, outcome |-> "none",
     writes |-> 0, wrote |-> NULL, saveFailed |-> FALSE, cancelAt |-> NULL]

InitClient == [pos |-> "init", events |-> <<>>, inputs |-> <<>>, nlines |-> 0, nreq |-> 0]

\* For each request, what it had sent when a Reset last completed while it
\* was in flight (NULL: no Reset has completed during the request).
NoResetSeen == [r \in Runs |-> NULL]

\* One call of generate_simple: nothing accumulated, no result yet.
InitSimple ==
    [pos |-> "init", full |-> <<>>, events |-> <<>>, inputs |-> <<>>, nlines |-> 0,
     result |-> NULL]

Init ==
    /\ db = [description |-> NULL, ai_description |-> NULL,
             ai_description_generated_at |-> NULL]
    /\ now = 0
    /\ run = [r \in Runs |-> InitRun]
    /\ lastWriter = NoWriter
    /\ cl = InitClient
    /\ got = NULL
    /\ pr = NULL
    /\ resetAt = NoResetSeen
    /\ simple = InitSimple

----------------------------------------------------------------------------
(* Actions of a generation request *)

\* Applies what the aggregator did (out) to run r, whose record is rr.
Apply(r, rr, out, pc2) ==
    LET d2 == IF out.persist
              THEN SaveFields(db, Persist(rr.art[1], out.full, now), SavedFields)
              ELSE db
        nr == [rr EXCEPT !.full = out.full,
                         !.frames = @ \o out.frames,
                         !.pc = pc2,
                         !.writes = @ + (IF out.persist THEN 1 ELSE 0),
                         !.wrote = IF out.persist
                                   THEN Some([text |-> d2.ai_description, t |-> now])
                                   ELSE @]
    IN /\ run' = [run EXCEPT ![r] = nr]
       /\ db' = d2
       /\ lastWriter' = IF out.persist THEN ByRun(r) ELSE lastWriter

\* "for chunk in OllamaService.generate_artifact_description(...)": the
\* aggregator asks the client generator for its next event.
Consume(r, rr, saveOk) ==
    IF rr.pend # <<>>
    THEN LET ev == Head(rr.pend)
             out == AggOnEvent(ev, rr.full, saveOk)
             r2 == [rr EXCEPT !.pend = Tail(@), !.events = Append(@, ev),
                              !.saveFailed = @ \/ (ev.t = "done" /\ ~saveOk)]
         IN Apply(r, r2, out, IF out.end THEN "ended" ELSE "suspended")
    ELSE /\ run' = [run EXCEPT ![r] = [rr EXCEPT !.pc = IF rr.stop THEN "ended" ELSE "read"]]
         /\ UNCHANGED <<db, lastWriter>>

\* The view: get_object_or_404, build the StreamingHttpResponse.
StartRun(r) ==
    /\ run[r].pc = "idle"
    /\ run' = [run EXCEPT ![r].pc = "created", ![r].art = Some(Loaded(db))]
    /\ UNCHANGED <<db, now, lastWriter, cl, got, pr, resetAt, simple>>

\* First resumption: the client opens its one HTTP request.
OpenRequest(r) ==
    /\ run[r].pc = "created"
    /\ \E outcome \in OpenOutcomes, saveOk \in BOOLEAN :
          LET res == ClientOpen(outcome)
              rr == [run[r] EXCEPT !.nreq = @ + 1, !.outcome = outcome,
                                   !.pend = res.events, !.stop = res.stop]
          IN Consume(r, rr, saveOk)
    /\ UNCHANGED <<now, cl, got, pr, resetAt, simple>>

\* The client, blocked in iter_lines(), gets a line, the end of the body or a fault.
ReadLine(r) ==
    /\ run[r].pc = "read"
    /\ \E inp \in AggLines \cup {EOF, ReadTimeout, ReadFault}, saveOk \in BOOLEAN :
          /\ inp \in AggLines => run[r].nlines < MaxLines
          /\ LET res == ClientOnInput(inp)
                 rr == [run[r] EXCEPT !.nlines = @ + (IF inp \in AggLines THEN 1 ELSE 0),
                                      !.pend = res.events, !.stop = res.stop]
             IN Consume(r, rr, saveOk)
    /\ UNCHANGED <<now, cl, got, pr, resetAt, simple>>

\* The response iterator resumes the aggregator after a chunk frame.
Resume(r) ==
    /\ run[r].pc = "suspended"
    /\ \E saveOk \in BOOLEAN : Consume(r, run[r], saveOk)
    /\ UNCHANGED <<now, cl, got, pr, resetAt, simple>>

\* The inbound client disconnects: the response closes the generator, which
\* can only happen while it is suspended at a yield or not yet started (a
\* generator blocked in the network read runs on to its next yield).
Cancel(r) ==
    /\ run[r].pc \in {"created", "suspended"}
    /\ LET rr == [run[r] EXCEPT !.cancelAt = Some([nf |-> Len(run[r].frames),
                                                   ne |-> Len(run[r].events),
                                                   nw |-> run[r].writes])]
       IN Apply(r, rr, OnClose(run[r].full), "cancelled")
    /\ UNCHANGED <<now, cl, got, pr, resetAt, simple>>

----------------------------------------------------------------------------
(* Other requests on the same row *)

\* POST regenerate-description/
Reset ==
    /\ db' = SaveFields(db, Cleared(db), SavedFields)
    /\ lastWriter' = ByReset
    /\ UNCHANGED <<now, run, cl, got, pr, resetAt, simple>>

\* PUT/PATCH update/ with ArtifactSerializer(partial=True), on an AI field
Update ==
    /\ \E f \in SerializerWritable \cap SavedFields : \E v \in UpdateVals(f) :
          db' = [db EXCEPT ![f] = v]
    /\ lastWriter' = ByUpdate
    /\ UNCHANGED <<now, run, cl, got, pr, resetAt, simple>>

\* PUT/PATCH update/ with ArtifactSerializer(partial=True), on another field
UpdateOther ==
    /\ \E f \in SerializerWritable \ SavedFields : \E v \in UpdateVals(f) :
          /\ v # db[f]
          /\ db' = [db EXCEPT ![f] = v]
    /\ lastWriter' = ByUpdate
    /\ UNCHANGED <<now, run, cl, got, pr, resetAt, simple>>

\* timezone.now() advances.
Tick ==
    /\ now < MaxNow
    /\ now' = now + 1
    /\ UNCHANGED <<db, run, lastWriter, cl, got, pr, resetAt, simple>>

Next ==
    \/ \E r \in Runs : StartRun(r)
    \/ \E r \in Runs : OpenRequest(r)
    \/ \E r \in Runs : ReadLine(r)
    \/ \E r \in Runs : Resume(r)
    \/ \E r \in Runs : Cancel(r)
    \/ Reset
    \/ Update
    \/ Tick

Spec == Init /\ [][Next]_vars

----------------------------------------------------------------------------
(* One generation request while the other fields of the row are edited. *)

NextFrame ==
    \/ StartRun(1)
    \/ OpenRequest(1)
    \/ ReadLine(1)
    \/ Resume(1)
    \/ Cancel(1)
    \/ Reset
    \/ UpdateOther

SpecFrame == Init /\ [][NextFrame]_vars

----------------------------------------------------------------------------
(* One generation request and Reset on the same row, with a record of the  *)
(* requests that were in flight when a Reset completed.                    *)

\* The view has loaded the artifact and the response is not finished.
InFlight(r) == run[r].pc \in {"created", "read", "suspended"}

\* Variant: Reset closes the responses that are in flight for the row.
ResetObserved_CancelsRuns ==
    /\ db' = SaveFields(db, Cleared(db), SavedFields)
    /\ lastWriter' = ByReset
    /\ resetAt' = [r \in Runs |-> IF InFlight(r)
                                  THEN Some([nf |-> Len(run[r].frames)])
                                  ELSE resetAt[r]]
    /\ run' = [r \in Runs |-> IF InFlight(r) THEN [run[r] EXCEPT !.pc = "cancelled"]
                              ELSE run[r]]
    /\ UNCHANGED <<now, cl, got, pr, simple>>

\* POST regenerate-description/ as Reset, noting for each request in flight
\* how many frames it had sent.
ResetObserved ==
    /\ db' = SaveFields(db, Cleared(db), SavedFields)
    /\ lastWriter' = ByReset
    /\ resetAt' = [r \in Runs |-> IF InFlight(r)
                                  THEN Some([nf |-> Len(run[r].frames)])
                                  ELSE resetAt[r]]
    /\ UNCHANGED <<now, run, cl, got, pr, simple>>

NextReset ==
    \/ StartRun(1)
    \/ OpenRequest(1)
    \/ ReadLine(1)
    \/ Resume(1)
    \/ Cancel(1)
    \/ ResetObserved

SpecReset == Init /\ [][NextReset]_vars

----------------------------------------------------------------------------
(* The Generation Client on its own, drained by a plain "for" loop. *)

ClientCallOpen ==
    /\ cl.pos = "init"
    /\ \E outcome \in OpenOutcomes :
          LET res == ClientOpen(outcome)
          IN cl' = [cl EXCEPT !.nreq = @ + 1, !.events = @ \o res.events,
                              !.pos = IF res.stop THEN "ended" ELSE "read"]
    /\ UNCHANGED <<db, now, run, lastWriter, got, pr, resetAt, simple>>

ClientCallRead ==
    /\ cl.pos = "read"
    /\ \E inp \in Lines \cup {EOF, ReadTimeout, ReadFault} :
          /\ inp \in Lines => cl.nlines < MaxLines
          /\ LET res == ClientOnInput(inp)
             IN cl' = [cl EXCEPT !.nlines = @ + (IF inp \in Lines THEN 1 ELSE 0),
                                 !.inputs = Append(@, inp),
                                 !.events = @ \o res.events,
                                 !.pos = IF res.stop THEN "ended" ELSE "read"]
    /\ UNCHANGED <<db, now, run, lastWriter, got, pr, resetAt, simple>>

NextClient == ClientCallOpen \/ ClientCallRead

SpecClient == Init /\ [][NextClient]_vars

----------------------------------------------------------------------------
(* OllamaService.generate_simple: the same client generator, drained into  *)
(* one returned text.                                                      *)

\* How the call ends: "return full_text" or an exception.
Returned(t) == [kind |-> "return", text |-> t, msg |-> <<>>]
Raised(m) == [kind |-> "raise", text |-> <<>>, msg |-> m]

\* The body of the loop for one event: 'chunk' appends (a chunk that is not
\* a string makes += raise), 'error' raises, done breaks to the return.
SimpleOnEvent(full, ev) ==
    CASE ev.t = "chunk" ->
            IF ev.v.ty = "str" THEN [full |-> full \o ev.v.v, result |-> NULL]
            ELSE [full |-> full, result |-> Some(Raised(<<"TypeError">>))]
      [] ev.t = "error" -> [full |-> full, result |-> Some(Raised(ev.msg))]
      [] OTHER -> [full |-> full, result |-> Some(Returned(full))]

\* The loop over the events the client yields for one thing the network hands
\* it; taken is the events the loop has received so far.
RECURSIVE SimpleDrain(_, _, _)
SimpleDrain(full, pend, taken) ==
    IF pend = <<>> THEN [full |-> full, taken |-> taken, result |-> NULL]
    ELSE LET o == SimpleOnEvent(full, Head(pend))
         IN IF o.result # NULL
            THEN [full |-> o.full, taken |-> Append(taken, Head(pend)), result |-> o.result]
            ELSE SimpleDrain(o.full, Tail(pend), Append(taken, Head(pend)))

\* One resumption of the client by the loop; a client that is finished ends
\* the loop, and the text accumulated is returned.
SimpleTake(res, inp) ==
    LET d == SimpleDrain(simple.full, res.events, simple.events)
        result == IF d.result # NULL THEN d.result
                  ELSE IF res.stop THEN Some(Returned(d.full))
                  ELSE NULL
    IN simple' = [simple EXCEPT !.full = d.full,
                                !.events = d.taken,
                                !.inputs = @ \o inp,
                                !.nlines = @ + (IF inp # <<>> /\ inp[1] \in Lines THEN 1 ELSE 0),
                                !.result = result,
                                !.pos = IF result # NULL THEN "ended" ELSE "read"]

SimpleCallOpen ==
    /\ simple.pos = "init"
    /\ \E outcome \in OpenOutcomes : SimpleTake(ClientOpen(outcome), <<>>)
    /\ UNCHANGED <<db, now, run, lastWriter, cl, got, pr, resetAt>>

SimpleCallRead ==
    /\ simple.pos = "read"
    /\ \E inp \in Lines \cup {EOF, ReadTimeout, ReadFault} :
          /\ inp \in Lines => simple.nlines < MaxLines
          /\ SimpleTake(ClientOnInput(inp), <<inp>>)
    /\ UNCHANGED <<db, now, run, lastWriter, cl, got, pr, resetAt>>

NextSimple == SimpleCallOpen \/ SimpleCallRead

SpecSimple == Init /\ [][NextSimple]_vars

\* The frames event_stream yields for a sequence of events, its save
\* succeeding: it stops at the first event that ends it.
RECURSIVE AggFrames(_, _)
AggFrames(events, full) ==
    IF events = <<>> THEN <<>>
    ELSE LET out == AggOnEvent(Head(events), full, TRUE)
         IN out.frames \o (IF out.end THEN <<>> ELSE AggFrames(Tail(events), out.full))

----------------------------------------------------------------------------
(* The Description State Manager on every row the update endpoint can      *)
(* produce (each of the three fields is writable on its own), at any time. *)

OptDescriptions == {NULL, Some(<<>>), Some(<<"d">>)}
OptAiDescriptions == {NULL, Some(<<>>), Some(<<"a">>)}
OptTimes == {NULL, Some(0), Some(1)}

InitGet ==
    /\ db \in [description : OptDescriptions, ai_description : OptAiDescriptions,
                ai_description_generated_at : OptTimes]
    /\ now \in 0..MaxDay
    /\ run = [r \in Runs |-> InitRun]
    /\ lastWriter = NoWriter
    /\ cl = InitClient
    /\ got = NULL
    /\ pr = NULL
    /\ resetAt = NoResetSeen
    /\ simple = InitSimple

\* GET description/ : the response, with the row and the time it was computed
\* from and the last writer of the row at that time.
GetDescription ==
    /\ got' = Some([res |-> GetResult(db, now), d |-> db, t |-> now, after |-> lastWriter])
    /\ UNCHANGED <<db, now, run, lastWriter, cl, pr, resetAt, simple>>

NextGet == GetDescription \/ Reset

SpecGet == InitGet /\ [][NextGet]_vars

----------------------------------------------------------------------------
(* The Prompt Builder on every combination of its arguments. *)

Names == {<<"mirror">>, <<"bell">>}
OptPeriods == {NULL, Some(<<>>), Some(<<"goryeo">>)}
OptYears == {NULL, Some(<<>>), Some(<<"1100">>)}
OptOrigins == {NULL, Some(<<>>), Some(<<"gaeseong">>)}

InitPrompt ==
    /\ pr \in [name : Names, time_period : OptPeriods, estimated_year : OptYears,
                origin_location : OptOrigins, out : {NULL}]
    /\ db = [description |-> NULL, ai_description |-> NULL,
             ai_description_generated_at |-> NULL]
    /\ now = 0
    /\ run = [r \in Runs |-> InitRun]
    /\ lastWriter = NoWriter
    /\ cl = InitClient
    /\ got = NULL
    /\ resetAt = NoResetSeen
    /\ simple = InitSimple

BuildPrompt ==
    /\ pr.out = NULL
    /\ pr' = [pr EXCEPT !.out = Some(CreatePrompt(pr.name, pr.time_period,
                                                  pr.estimated_year, pr.origin_location))]
    /\ UNCHANGED <<db, now, run, lastWriter, cl, got, resetAt, simple>>

NextPrompt == BuildPrompt

SpecPrompt == InitPrompt /\ [][NextPrompt]_vars

----------------------------------------------------------------------------
(* Properties *)

RECURSIVE ConcatChunkFrames(_)
ConcatChunkFrames(fs) ==
    IF fs = <<>> THEN <<>>
    ELSE (IF Head(fs).type = "chunk" THEN Head(fs).body ELSE <<>>) \o ConcatChunkFrames(Tail(fs))

FrameTypes(r) == {run[r].frames[i].type : i \in 1..Len(run[r].frames)}
EventTypes(r) == {run[r].events[i].t : i \in 1..Len(run[r].events)}
TerminalFrameCount(r) ==
    Cardinality({i \in 1..Len(run[r].frames) : IsTerminalFrame(run[r].frames[i])})

\* C1: ai_description is non-null exactly when ai_description_generated_at
\* is non-null, in every reachable state.
C1_DescriptionIffTimestamp ==
    (db.ai_description # NULL) <=> (db.ai_description_generated_at # NULL)

\* C2: the full_text of a complete frame is the concatenation, in order, of
\* the content of the chunk frames before it in the same run, and is the
\* value the run wrote to ai_description.
C2_CompleteIsConcatenation ==
    \A r \in Runs : \A i \in 1..Len(run[r].frames) :
        run[r].frames[i].type = "complete" =>
            /\ run[r].frames[i].body = ConcatChunkFrames(SubSeq(run[r].frames, 1, i - 1))
            /\ run[r].wrote # NULL
            /\ run[r].wrote[1].text = Some(run[r].frames[i].body)

C2_Witness ==
    \E r \in Runs :
        /\ Len(run[r].frames) = 3
        /\ run[r].frames[1].type = "chunk"
        /\ run[r].frames[2].type = "chunk"
        /\ run[r].frames[1].body # run[r].frames[2].body
        /\ run[r].frames[3].type = "complete"

\* C3: a run whose last frame is an error frame has written nothing to the
\* artifact, whatever it had accumulated.
C3_ErrorRunWritesNothing ==
    \A r \in Runs :
        (run[r].frames # <<>> /\ Last(run[r].frames).type = "error") =>
            /\ run[r].writes = 0
            /\ run[r].wrote = NULL
            /\ lastWriter # ByRun(r)

C3_Witness ==
    \E r \in Runs :
        /\ run[r].pc = "ended"
        /\ Len(run[r].frames) = 2
        /\ run[r].frames[1].type = "chunk"
        /\ run[r].frames[2].type = "error"
        /\ run[r].full # <<>>

\* C4: a run that ends without being cancelled has exactly one complete or
\* error frame, and it is the last frame.
C4_NeverClosesSilently ==
    \A r \in Runs :
        run[r].pc = "ended" =>
            /\ run[r].frames # <<>>
            /\ IsTerminalFrame(Last(run[r].frames))
            /\ TerminalFrameCount(r) = 1

\* C5: the events the Generation Client produces hold at most one Done or
\* Error, and nothing follows it.
C5_ClientOneTerminalEventLast ==
    \A i \in 1..Len(cl.events) :
        IsTerminalEvent(cl.events[i]) => i = Len(cl.events)

\* C6: a malformed line in a response that has delivered other content is
\* skipped: no error frame is sent for it.
C6_MalformedLineNotSurfaced ==
    \A r \in Runs :
        "chunk" \in EventTypes(r) =>
            \A i \in 1..Len(run[r].frames) :
                run[r].frames[i] # ErrorFrame(<<"JSON decode error">>)

\* C7: on a non-success status the client makes one request and yields one
\* Error and ends; the aggregator emits one error frame, no chunk or complete
\* frame, and writes nothing.
C7_BadStatusOneErrorOnly ==
    \A r \in Runs :
        run[r].outcome = "badstatus" =>
            /\ run[r].nreq = 1
            /\ run[r].events = <<Error("Ollama API error")>>
            /\ run[r].pend = <<>> /\ run[r].stop /\ run[r].nlines = 0
            /\ run[r].frames = <<ErrorFrame(<<"Ollama API error">>)>>
            /\ run[r].pc = "ended"
            /\ run[r].writes = 0
            /\ lastWriter # ByRun(r)

C7_Witness ==
    \E r \in Runs :
        /\ run[r].outcome = "badstatus"
        /\ run[r].pc = "ended"
        /\ db.ai_description # NULL
        /\ lastWriter.by = "run"

\* C8: a complete frame is emitted only after the save has succeeded; when
\* the save fails the run emits one error frame and no complete frame, and
\* the step leaves both persisted fields as they were.
C8_PersistBeforeComplete ==
    [][\A r \in Runs :
         /\ "complete" \in FrameTypes(r)' => (run'[r].writes = 1 /\ ~run'[r].saveFailed)
         /\ run'[r].saveFailed =>
               /\ "complete" \notin FrameTypes(r)'
               /\ Last(run'[r].frames) = ErrorFrame(<<"save failed">>)
               /\ TerminalFrameCount(r)' = 1
               /\ run'[r].writes = 0
         /\ (run'[r].saveFailed /\ ~run[r].saveFailed) => db' = db]_vars

C8_Witness ==
    \E r \in Runs :
        /\ run[r].saveFailed
        /\ run[r].full # <<>>
        /\ db.ai_description # NULL
        /\ db.ai_description # Some(run[r].full)

\* C9: with two runs interleaved, the persisted description is the full text
\* of the run that saved last, with the timestamp of that save; each run's
\* text is made of its own chunks only.
C9_LastWriteWins ==
    \A r \in Runs :
        /\ run[r].full = ConcatChunkFrames(run[r].frames)
        /\ lastWriter = ByRun(r) =>
              /\ db.ai_description = Some(run[r].full)
              /\ db.ai_description_generated_at = Some(run[r].wrote[1].t)

C9_Witness ==
    /\ \A r \in Runs : run[r].writes = 1 /\ run[r].pc = "ended" /\ Len(run[r].full) = 2
    /\ run[1].full # run[2].full
    /\ run[1].wrote[1].t # run[2].wrote[1].t
    /\ lastWriter = ByRun(1)

\* C10: a run whose generator is closed before it has received Done takes no
\* further event, emits no further frame and never saves.
C10_CancelledRunInert ==
    \A r \in Runs :
        (run[r].pc = "cancelled" /\ "done" \notin EventTypes(r)) =>
            /\ run[r].writes = 0
            /\ lastWriter # ByRun(r)
            /\ Len(run[r].frames) = run[r].cancelAt[1].nf
            /\ Len(run[r].events) = run[r].cancelAt[1].ne

C10_Witness ==
    \E r \in Runs :
        /\ run[r].pc = "cancelled"
        /\ run[r].pend = <<Done>>
        /\ run[r].full # <<>>

\* C11: NeedsRegeneration is true while there is no ai_description, false
\* right after a generation run that ended with a complete frame (whatever
\* its text), and true once more than 30 days have passed since.
C11_NeedsRegenerationSequence ==
    /\ db.ai_description = NULL => NeedsRegeneration(db, now)
    /\ \A r \in Runs :
          (lastWriter = ByRun(r) /\ "complete" \in FrameTypes(r)) =>
              /\ now = run[r].wrote[1].t => ~NeedsRegeneration(db, now)
              /\ now - run[r].wrote[1].t > StaleDays => NeedsRegeneration(db, now)

C13_ResetThenGet ==
    [][/\ lastWriter' = ByReset =>
             /\ db'.ai_description = NULL /\ db'.ai_description_generated_at = NULL
             /\ db'.description = db.description
             /\ run' = run /\ cl' = cl
       /\ (got' # NULL /\ got'[1].after = ByReset) =>
             /\ ~got'[1].res.is_ai_generated
             /\ got'[1].res.generated_at = NULL
             /\ got'[1].res.needs_regeneration
             /\ got'[1].res.description =
                   IF got'[1].d.description \in {NULL, Some(<<>>)}
                   THEN Placeholder ELSE got'[1].d.description[1]]_vars

C13_Witness ==
    /\ got # NULL
    /\ got[1].after = ByReset
    /\ got[1].res.description = <<"d">>
    /\ got[1].d = db

\* C14: Get changes nothing and returns ai_description when that is present
\* (not null, not empty), else the plain description when present, else the
\* placeholder; is_ai_generated is true exactly when ai_description is present.
C14_GetResultFunction ==
    [][got' # got =>
          /\ db' = db /\ now' = now /\ lastWriter' = lastWriter /\ run' = run
          /\ got'[1].d = db /\ got'[1].t = now
          /\ LET ai == db.ai_description
                 plain == db.description
                 res == got'[1].res
             IN /\ res.is_ai_generated <=> (ai # NULL /\ ai # Some(<<>>))
                /\ (ai # NULL /\ ai # Some(<<>>)) => res.description = ai[1]
                /\ (ai \in {NULL, Some(<<>>)} /\ plain # NULL /\ plain # Some(<<>>)) =>
                       res.description = plain[1]
                /\ (ai \in {NULL, Some(<<>>)} /\ plain \in {NULL, Some(<<>>)}) =>
                       res.description = Placeholder]_vars

C14_Witness ==
    /\ got # NULL
    /\ got[1].d.ai_description = Some(<<"a">>)
    /\ got[1].d.description = Some(<<"d">>)
    /\ got[1].res.description = <<"a">>
    /\ got[1].res.is_ai_generated

OptionalKinds == <<"time_period", "estimated_year", "origin_location">>

KindRank(k) == CHOOSE i \in 1..Len(OptionalKinds) : OptionalKinds[i] = k

\* C15: the prompt always has the name line; it has a line for time_period,
\* estimated_year, origin_location exactly when that field is present (not
\* null, not empty), in that order, and ends with the guidance block.
C15_PromptLines ==
    (pr # NULL /\ pr.out # NULL) =>
        LET p == pr.out[1]
            mid == SubSeq(p, 3, Len(p) - 1)
        IN /\ p[1] = PromptHeader
           /\ p[2] = PromptPart("name", pr.name)
           /\ p[Len(p)] = PromptGuidance
           /\ \A i \in 1..Len(OptionalKinds) :
                 LET k == OptionalKinds[i]
                     at == {j \in 1..Len(mid) : mid[j].k = k}
                 IN IF pr[k] # NULL /\ pr[k] # Some(<<>>)
                    THEN Cardinality(at) = 1 /\ \A j \in at : mid[j].v = pr[k][1]
                    ELSE at = {}
           /\ \A j \in 1..Len(mid) :
                 /\ mid[j].k \in {OptionalKinds[i] : i \in 1..Len(OptionalKinds)}
                 /\ \A j2 \in 1..Len(mid) : j < j2 => KindRank(mid[j].k) < KindRank(mid[j2].k)

C15_Witness ==
    /\ pr # NULL
    /\ pr.time_period = Some(<<"goryeo">>)
    /\ pr.estimated_year = NULL
    /\ pr.origin_location = Some(<<"gaeseong">>)
    /\ pr.out = Some(<<PromptHeader, PromptPart("name", pr.name),
                       PromptPart("time_period", <<"goryeo">>),
                       PromptPart("origin_location", <<"gaeseong">>),
                       PromptGuidance>>)

RECURSIVE ChunkFrameBodies(_)
ChunkFrameBodies(fs) ==
    IF fs = <<>> THEN <<>>
    ELSE (IF Head(fs).type = "chunk" THEN <<Head(fs).body>> ELSE <<>>)
         \o ChunkFrameBodies(Tail(fs))

RECURSIVE ChunkEventTexts(_)
ChunkEventTexts(es) ==
    IF es = <<>> THEN <<>>
    ELSE (IF Head(es).t = "chunk" /\ Head(es).v.ty = "str" THEN <<Head(es).v.v>> ELSE <<>>)
         \o ChunkEventTexts(Tail(es))

\* C16: each Chunk event (carrying a text) received by the aggregator gives
\* exactly one chunk frame with that text, the chunk frames are in the order
\* of the events, and the step that handles a Chunk writes nothing.
C16_ChunkFramesFollowEvents ==
    [][\A r \in Runs :
         /\ ChunkFrameBodies(run'[r].frames) = ChunkEventTexts(run'[r].events)
         /\ (Len(run'[r].events) > Len(run[r].events) /\ Last(run'[r].events).t = "chunk") =>
               /\ db' = db
               /\ run'[r].writes = run[r].writes
               /\ Last(run'[r].events).v.ty = "str" =>
                     run'[r].frames =
                        Append(run[r].frames, ChunkFrame(Last(run'[r].events).v.v))]_vars

C16_Witness ==
    \E r \in Runs :
        /\ run[r].pc = "suspended"
        /\ Len(run[r].events) = 2
        /\ ChunkFrameBodies(run[r].frames) = <<(<<"b">>), (<<"a">>)>>
        /\ run[r].writes = 0
        /\ db.ai_description = NULL

\* C17: in the Generation Client a record with done true yields Done and
\* ends the sequence, so nothing is read after it; with a response field as
\* well it yields the Chunk and then Done; a blank line yields nothing.
C17_DoneEndsClient ==
    [][LET n == Len(cl'.inputs)
           e == cl'.events
       IN /\ \A i \in 1..n :
                (cl'.inputs[i].k = "rec" /\ cl'.inputs[i].done) =>
                    /\ i = n
                    /\ cl'.pos = "ended"
                    /\ e # <<>> /\ e[Len(e)] = Done
                    /\ cl'.inputs[i].resp # NULL =>
                          (Len(e) >= 2 /\ e[Len(e) - 1] = Chunk(cl'.inputs[i].resp[1]))
          /\ (n > Len(cl.inputs) /\ cl'.inputs[n].k = "blank") =>
                (e = cl.events /\ cl'.pos = "read")]_vars

C17_Witness ==
    /\ Len(cl.inputs) = 2
    /\ cl.inputs[1] = BlankLine
    /\ cl.inputs[2] = Rec(Some(Str(<<"a">>)), TRUE)
    /\ cl.events = <<Chunk(Str(<<"a">>)), Done>>
    /\ cl.pos = "ended"

FaultMessages == {<<"Ollama API timeout">>, <<"Cannot connect to Ollama">>, <<"Unexpected error">>}

ErrorFrameCount(r) ==
    Cardinality({i \in 1..Len(run[r].frames) : run[r].frames[i].type = "error"})

\* C18: a timeout, a refused connection or any other fault in the client,
\* before the first record or after some chunks, gives one Error event after
\* which the client is finished (no retry, no Done); the aggregator emits a
\* single error frame and saves nothing.
C18_FaultOneErrorThenEnd ==
    \A r \in Runs : \A i \in 1..Len(run[r].events) :
        (run[r].events[i].t = "error" /\ run[r].events[i].msg \in FaultMessages) =>
            /\ i = Len(run[r].events)
            /\ run[r].pend = <<>> /\ run[r].stop
            /\ run[r].nreq = 1
            /\ "done" \notin EventTypes(r)
            /\ run[r].pc = "ended"
            /\ Last(run[r].frames) = ErrorFrame(run[r].events[i].msg)
            /\ ErrorFrameCount(r) = 1
            /\ "complete" \notin FrameTypes(r)
            /\ run[r].writes = 0
            /\ lastWriter # ByRun(r)

C18_Witness ==
    \E r \in Runs :
        /\ run[r].frames = <<ChunkFrame(<<"a">>), ErrorFrame(<<"Ollama API timeout">>)>>
        /\ run[r].nlines = 1
        /\ run[r].full = <<"a">>

\* C19: the save of a generation run changes ai_description and
\* ai_description_generated_at and no other field of the row, also when
\* another request changed such a field after the run loaded the artifact;
\* Reset likewise.
C19_SaveChangesTwoFields ==
    [][/\ lastWriter'.by \in {"run", "reset"} => db'.description = db.description
       /\ \A r \in Runs :
             run'[r].writes > run[r].writes =>
                 /\ db'.ai_description = Some(run'[r].full)
                 /\ db'.ai_description_generated_at = Some(now)
       /\ (lastWriter' = ByReset /\ lastWriter # ByReset) =>
             (db'.ai_description = NULL /\ db'.ai_description_generated_at = NULL)]_vars

C19_Witness ==
    \E r \in Runs :
        /\ lastWriter = ByRun(r)
        /\ run[r].art[1].description = NULL
        /\ db.description = Some(<<"d">>)
        /\ db.ai_description = Some(run[r].full)

\* C20: the outbound stream has at most one complete or error frame, and
\* once it has one the run emits no frame and takes no event any more.
C20_NothingAfterTerminalFrame ==
    [][\A r \in Runs :
         /\ \A i \in 1..Len(run'[r].frames) :
               IsTerminalFrame(run'[r].frames[i]) => i = Len(run'[r].frames)
         /\ (\E i \in 1..Len(run[r].frames) : IsTerminalFrame(run[r].frames[i])) =>
               run'[r] = run[r]]_vars

C20_Witness ==
    \E r \in Runs :
        /\ run[r].pc = "ended"
        /\ run[r].frames = <<ErrorFrame(<<"JSON decode error">>)>>
        /\ ~run[r].stop
        /\ run[r].nlines < MaxLines

\* C21: Reset leaves a request in flight as it is; when a request that was
\* in flight at a Reset later receives Done and its save succeeds, the row
\* holds that request's full text and the timestamp of the save, and the
\* request is the last writer.
C21_RunOverwritesReset ==
    [][/\ (resetAt' # resetAt \/ (lastWriter' = ByReset /\ lastWriter # ByReset)) =>
             run' = run
       /\ \A r \in Runs :
             (/\ resetAt[r] # NULL
              /\ Len(run'[r].events) > Len(run[r].events)
              /\ Last(run'[r].events) = Done
              /\ ~run'[r].saveFailed) =>
                 /\ run'[r].writes = run[r].writes + 1
                 /\ Last(run'[r].frames) = CompleteFrame(run'[r].full)
                 /\ db'.ai_description = Some(run'[r].full)
                 /\ db'.ai_description_generated_at = Some(now)
                 /\ lastWriter' = ByRun(r)]_vars

C21_Witness ==
    /\ resetAt[1] = Some([nf |-> 1])
    /\ run[1].frames = <<ChunkFrame(<<"a">>), ChunkFrame(<<"b">>), CompleteFrame(<<"a", "b">>)>>
    /\ db.ai_description = Some(<<"a", "b">>)
    /\ db.ai_description_generated_at # NULL
    /\ lastWriter = ByRun(1)

\* C22: in every state reached through generation requests and Reset, the
\* result of Get has is_ai_generated true exactly when generated_at is
\* non-null.
C22_GetSelfConsistent ==
    GetResult(db, now).is_ai_generated <=> (GetResult(db, now).generated_at # NULL)

\* C23: on every sequence of generation events, generate_simple returns a
\* text exactly when the aggregator emits a complete frame, and that text is
\* the frame's full_text; it raises exactly when the aggregator emits an
\* error frame; and it writes nothing to the artifact row.
C23_SimpleAgreesWithAggregator ==
    simple.pos = "ended" =>
        LET fs == AggFrames(simple.events, <<>>)
            res == simple.result[1]
        IN /\ (res.kind = "return") <=> (\E i \in 1..Len(fs) : fs[i].type = "complete")
           /\ \A i \in 1..Len(fs) :
                 (res.kind = "return" /\ fs[i].type = "complete") => fs[i].body = res.text
           /\ (res.kind = "raise") <=> (\E i \in 1..Len(fs) : fs[i].type = "error")
           /\ db.ai_description = NULL /\ db.ai_description_generated_at = NULL
           /\ lastWriter = NoWriter

====
